---------------------------- MODULE Spec2Model ----------------------------
(***************************************************************************)
(* FileIOHelper.assemble_article_data (frontend/storm_wiki/util/file_io.py) *)
(* as a state machine: one call of the function, from the type check of    *)
(* its argument to its return or raise, over a bounded set of arguments    *)
(* and of files on disk.                                                   *)
(*                                                                         *)
(* Strings that the code inspects (file names, article text, strings in    *)
(* the conversation log) are sequences; strings it only copies are TLA+    *)
(* strings.  A JSON value is a record tagged with its Python type.         *)
(***************************************************************************)
EXTENDS Integers, Sequences, FiniteSets, TLC

\* ------------------------------------------------------------------ bounds
\* Longest article_file_path_dict, counted in keys.
MaxKeys == 3
\* Most URLs in the url_to_info mapping of url_to_info.json.
MaxUrls == 2
\* Most entries of the conversation log.
MaxLog == 2
\* Most segments (single characters or one long run) of an article text.
MaxSegs == 4

\* ------------------------------------------------------- program constants
\* no_title_content[:100]
ShortTextLen == 100
\* the {1,3} of the title pattern
MaxHashes == 3

None == "None"

Range(s) == {s[i] : i \in 1..Len(s)}

Min(S) == CHOOSE x \in S : \A y \in S : x <= y

Take(s, n) == SubSeq(s, 1, Min({n, Len(s)}))

\* ------------------------------------------------------------- exceptions
Ok(v) == [exc |-> "none", val |-> v]

Raise(e) == [exc |-> e, val |-> <<>>]

\* Python's built-in exception hierarchy, as far as the handlers see it.
Bases(e) ==
    CASE e = "FileNotFoundError" -> {"FileNotFoundError", "OSError", "Exception"}
      [] e = "PermissionError"   -> {"PermissionError", "OSError", "Exception"}
      [] e = "JSONDecodeError"   -> {"JSONDecodeError", "ValueError", "Exception"}
      [] e = "AttributeError"    -> {"AttributeError", "Exception"}
      [] e = "TypeError"         -> {"TypeError", "Exception"}
      [] OTHER                   -> {e}

\* Faulty variant: the conversation log block without its handler.
InnerMissesDecodeError(e) == FALSE

\* except json.JSONDecodeError (the handler inside the conversation log block)
InnerCatches(e) == "JSONDecodeError" \in Bases(e)

\* Faulty variants: only except FileNotFoundError; no except Exception.
OuterCatchesNotFound(e) == "FileNotFoundError" \in Bases(e)

OuterCatchesOnlyIO(e) == "FileNotFoundError" \in Bases(e) \/ "OSError" \in Bases(e)

\* except FileNotFoundError / except IOError / except Exception
OuterCatches(e) ==
    \/ "FileNotFoundError" \in Bases(e)
    \/ "OSError" \in Bases(e)
    \/ "Exception" \in Bases(e)

\* ------------------------------------------------------------------ files
\* A file name is the sequence of its stem and its dot-suffixes.
ArticleKey == <<"storm_gen_article", ".md">>
PolishedKey == <<"storm_gen_article_polished", ".md">>
BackupKey == <<"storm_gen_article", ".md", ".bak">>
UrlToInfoKey == <<"url_to_info", ".json">>
ConversationLogKey == <<"conversation_log", ".json">>

Keys == {ArticleKey, PolishedKey, BackupKey, UrlToInfoKey, ConversationLogKey}

NoJson == [t |-> "none"]

\* The file a path of the dict names: absent, present but not readable,
\* present with text that is not JSON, or present with the JSON value json.
Missing == [st |-> "missing", json |-> NoJson]
Unreadable == [st |-> "unreadable", json |-> NoJson]
NotJson == [st |-> "text", json |-> NoJson]
JsonFile(j) == [st |-> "json", json |-> j]

\* Faulty variant: the suffix anywhere in the name ("in" for endswith).
EndsWithAnywhere(name, suffix) == \E i \in 1..Len(name) : name[i] = suffix

\* str.endswith
EndsWith(name, suffix) == Len(name) > 0 /\ name[Len(name)] = suffix

\* open(path, "r")
Open(file) ==
    CASE file.st = "missing"    -> "FileNotFoundError"
      [] file.st = "unreadable" -> "PermissionError"
      [] OTHER                  -> "none"

\* json.load(f) on an opened file
JsonLoad(file) ==
    IF file.st = "json" THEN Ok(file.json) ELSE Raise("JSONDecodeError")

\* read_json_file
read_json_file(file) ==
    IF Open(file) # "none" THEN Raise(Open(file)) ELSE JsonLoad(file)

\* "key in article_file_path_dict"
HasKey(d, k) == \E i \in 1..Len(d) : d[i].key = k

\* article_file_path_dict[key]
Lookup(d, k) == d[CHOOSE i \in 1..Len(d) : d[i].key = k].file

\* next((f for f in dict.keys() if f.endswith(".md")), None)
FirstMdKey(d) ==
    LET hits == {i \in 1..Len(d) : EndsWith(d[i].key, ".md")}
    IN  IF hits = {} THEN None ELSE d[Min(hits)].key


\* ------------------------------------------------------------ article text
\* Text is a sequence of characters over {"#", "\n", "a"}.
LongRun == [i \in 1..ShortTextLen |-> "a"]

Segments == {<<"#">>, <<"\n">>, <<"a">>, LongRun}

RECURSIVE TextsUpTo(_)
TextsUpTo(n) ==
    IF n = 0 THEN {<<>>}
    ELSE LET prev == TextsUpTo(n - 1)
         IN  prev \cup {t \o s : t \in prev, s \in Segments}

Texts == TextsUpTo(MaxSegs)

TextsFew == {<<>>, <<"#", "a", "\n", "a", "\n", "#", "#", "#", "#">>}

\* ^ under re.MULTILINE: the start of the string or just after a newline
AtLineStart(s, i) == i = 1 \/ s[i - 1] = "\n"

\* The end (exclusive) of a match of  #{1,3}[^\n]*\n?  that starts at i,
\* where s[i] = "#": the quantifiers are greedy and never back off, since
\* the rest of the pattern can always match.
MatchEnd(s, i) ==
    LET hashes == CHOOSE k \in 1..MaxHashes :
                      /\ \A j \in i..(i + k - 1) : j <= Len(s) /\ s[j] = "#"
                      /\ k = MaxHashes \/ i + k > Len(s) \/ s[i + k] # "#"
        stop == Min({j \in (i + hashes)..(Len(s) + 1) : j = Len(s) + 1 \/ s[j] = "\n"})
    IN  IF stop <= Len(s) THEN stop + 1 ELSE stop

\* re.sub(r"^#{1,3}[^\n]*\n?", "", s, flags=re.MULTILINE) from position i on:
\* the matches are found left to right in s and cut out.
RECURSIVE ReSubFrom(_, _)
ReSubFrom(s, i) ==
    IF i > Len(s) THEN <<>>
    ELSE IF AtLineStart(s, i) /\ s[i] = "#" THEN ReSubFrom(s, MatchEnd(s, i))
    ELSE LET next == Min({j \in (i + 1)..(Len(s) + 1) :
                             j = Len(s) + 1 \/ (AtLineStart(s, j) /\ s[j] = "#")})
         IN  SubSeq(s, i, next - 1) \o ReSubFrom(s, next)

no_title_content(parsed_article_content) == ReSubFrom(parsed_article_content, 1)

\* Faulty variant: the cut at 100 before the deletion of the title lines.
ShortTextCutFirst(parsed_article_content) ==
    no_title_content(Take(parsed_article_content, ShortTextLen))

\* short_text = no_title_content[:100]
ShortText(parsed_article_content) ==
    Take(no_title_content(parsed_article_content), ShortTextLen)

\* --------------------------------------------------------- url_to_info.json
Urls == {"https://a.example", "https://b.example", "https://c.example"}

Dict(f) == [t |-> "dict", f |-> f]

\* The info records of the citation index; the last one is a JSON string
\* where a record is expected.
Infos ==
    { Dict(<<>>),
      Dict(("title" :> "T") @@ ("description" :> "D") @@ ("snippets" :> <<"s1", "s2">>)),
      Dict(("title" :> "T") @@ ("snippets" :> <<>>) @@ ("snippet" :> "x")),
      Dict(("snippet" :> "x")),
      Dict(("snippets" :> <<"s1">>) @@ ("snippet" :> "x")),
      [t |-> "str", f |-> <<>>] }

RECURSIVE UrlItems(_)
UrlItems(n) ==
    IF n = 0 THEN {<<>>}
    ELSE LET prev == UrlItems(n - 1)
         IN  prev \cup UNION {{Append(p, [url |-> u, info |-> i]) :
                                  u \in Urls \ {p[k].url : k \in 1..Len(p)}, i \in Infos} :
                              p \in {q \in prev : Len(q) = n - 1}}

\* The JSON values url_to_info.json may hold: an array, an object without
\* the url_to_info field, or an object whose url_to_info is null or an
\* object of URL -> info in the order of the file.
UrlJsonAll ==
    {[t |-> "list"], [t |-> "dict", has |-> FALSE]}
    \cup {[t |-> "dict", has |-> TRUE, url_to_info |-> [t |-> "null"]]}
    \cup {[t |-> "dict", has |-> TRUE, url_to_info |-> [t |-> "dict", items |-> it]] :
             it \in UrlItems(MaxUrls)}

UrlFilesAll == {Missing, Unreadable, NotJson} \cup {JsonFile(j) : j \in UrlJsonAll}

UrlFilesFew ==
    { Missing, NotJson,
      JsonFile([t |-> "dict", has |-> FALSE]),
      JsonFile([t |-> "dict", has |-> TRUE, url_to_info |->
          [t |-> "dict", items |->
              <<[url |-> "https://a.example", info |-> Dict(("snippet" :> "x"))]>>]]) }

\* dict.get(key, default) on an info record
Get(info, key, default) == IF key \in DOMAIN info.f THEN info.f[key] ELSE default

\* lines 157-166: one citation
Citation(url, info) ==
    LET got == Get(info, "snippets", <<>>)
        snippets == IF got = <<>> /\ "snippet" \in DOMAIN info.f
                    THEN <<info.f["snippet"]>> ELSE got
    IN  [url |-> url, title |-> Get(info, "title", ""),
         description |-> Get(info, "description", ""), snippets |-> snippets]

\* Faulty variant: enumerate without start=1.
CitationsFromZero(url_info) ==
    IF url_info.t # "dict" THEN Raise("AttributeError")
    ELSE IF ~url_info.has THEN Ok(<<>>)
    ELSE IF url_info.url_to_info.t # "dict" THEN Raise("AttributeError")
    ELSE LET items == url_info.url_to_info.items
         IN  IF \E i \in 1..Len(items) : items[i].info.t # "dict"
             THEN Raise("AttributeError")
             ELSE Ok([i \in 0..(Len(items) - 1) |->
                         Citation(items[i + 1].url, items[i + 1].info)])

\* lines 153-167 on the loaded JSON value: .get and .items need a dict,
\* info.get needs a dict; enumerate(..., start=1) numbers the items.
Citations(url_info) ==
    IF url_info.t # "dict" THEN Raise("AttributeError")
    ELSE IF ~url_info.has THEN Ok(<<>>)
    ELSE IF url_info.url_to_info.t # "dict" THEN Raise("AttributeError")
    ELSE LET items == url_info.url_to_info.items
         IN  IF \E i \in 1..Len(items) : items[i].info.t # "dict"
             THEN Raise("AttributeError")
             ELSE Ok([i \in 1..Len(items) |-> Citation(items[i].url, items[i].info)])

\* ---------------------------------------------------- conversation_log.json
\* A JSON scalar as json.load returns it: kind is its Python type, num its
\* value as an integer (True is 1 and False is 0, also as a dict key) and
\* text its value as a string.
PyInt(n) == [kind |-> "int", num |-> n, text |-> ""]
PyBool(b) == [kind |-> "bool", num |-> IF b THEN 1 ELSE 0, text |-> ""]
PyStr(x) == [kind |-> "str", num |-> 0, text |-> x]
PyNone == [kind |-> "NoneType", num |-> 0, text |-> ""]

AgentValues == {PyInt(0), PyInt(1), PyInt(2), PyInt(5), PyInt(-1), PyBool(TRUE), PyBool(FALSE),
                PyStr("Moderator"), PyNone}

\* The entries of the log: records with or without an agent field, and
\* entries that are no record: a string without and one with "agent" in
\* it, and a number.
RecordEntries ==
    {Dict(("text" :> "hi"))}
    \cup {Dict(("agent" :> a) @@ ("text" :> "hi")) : a \in AgentValues}

StrHi == [t |-> "str", chars |-> <<"h", "i">>]
StrAgent == [t |-> "str", chars |-> <<"a", "g", "e", "n", "t", "s">>]
Number == [t |-> "int"]

Entries == RecordEntries \cup {StrHi, StrAgent, Number}

RECURSIVE SeqsUpTo(_, _)
SeqsUpTo(S, n) ==
    IF n = 0 THEN {<<>>}
    ELSE LET prev == SeqsUpTo(S, n - 1)
         IN  prev \cup {Append(p, e) : p \in {q \in prev : Len(q) = n - 1}, e \in S}

\* The JSON values conversation_log.json may hold: an array of entries, an
\* object (with its keys in order), a string, a number or null.
LogJsonAll ==
    {[t |-> "list", items |-> it] : it \in SeqsUpTo(Entries, MaxLog)}
    \cup {[t |-> "dict", keys |-> ks] : ks \in {<<>>, <<StrHi>>, <<StrAgent>>}}
    \cup {StrHi, StrAgent, Number, [t |-> "NoneType"]}

LogFilesAll == {Missing, Unreadable, NotJson} \cup {JsonFile(j) : j \in LogJsonAll}

LogFilesFew ==
    { Missing, NotJson,
      JsonFile([t |-> "list", items |-> <<Dict(("agent" :> PyInt(0)) @@ ("text" :> "hi"))>>]),
      JsonFile([t |-> "dict", keys |-> <<>>]) }

\* isinstance(value, int): bool is a subclass of int
IsInstanceInt(v) == v.kind \in {"int", "bool"}

\* agent_names.get(entry["agent"], f"Agent {entry['agent']}")
AgentName(v) ==
    CASE v.num = 0 -> PyStr("User")
      [] v.num = 1 -> PyStr("AI Assistant")
      [] v.num = 2 -> PyStr("Expert")
      [] OTHER -> PyStr("Agent " \o ToString(v.num))

\* "agent" in x, for a string x
HasAgentSubstring(chars) ==
    \E i \in 1..(Len(chars) - 4) : SubSeq(chars, i, i + 4) = <<"a", "g", "e", "n", "t">>

\* What iterating the loaded value yields; a number and null are not iterable.
CanIterate(log) == log.t \in {"list", "dict", "str"}

Iterate(log) ==
    CASE log.t = "list" -> log.items
      [] log.t = "dict" -> log.keys
      [] log.t = "str"  -> [i \in 1..Len(log.chars) |-> [t |-> "str", chars |-> <<log.chars[i]>>]]

\* Faulty variant: a loop that skips what is not a record.
EntryNeverRaises(entry) == FALSE

\* One turn of the loop of lines 178-182 raises TypeError: "agent" in entry
\* on a number, or entry["agent"] on a string that contains "agent".
EntryRaises(entry) ==
    \/ entry.t = "int"
    \/ entry.t = "str" /\ HasAgentSubstring(entry.chars)

\* One turn of the loop on an entry that does not raise.
RenamedEntry(entry) ==
    IF entry.t = "dict" /\ "agent" \in DOMAIN entry.f /\ IsInstanceInt(entry.f["agent"])
    THEN Dict([entry.f EXCEPT !["agent"] = AgentName(entry.f["agent"])])
    ELSE entry

\* Lines 177-182 on the loaded value: the value with its entries renamed
\* in place, or the exception the loop raises.
RenameAgents(log) ==
    IF ~CanIterate(log) THEN Raise("TypeError")
    ELSE IF \E i \in 1..Len(Iterate(log)) : EntryRaises(Iterate(log)[i])
    THEN Raise("TypeError")
    ELSE IF log.t = "list"
    THEN Ok([log EXCEPT !.items = [i \in 1..Len(log.items) |-> RenamedEntry(log.items[i])]])
    ELSE Ok(log)

\* -------------------------------------------------------------- arguments
OkFile == [st |-> "text", json |-> NoJson]

RECURSIVE KeySeqs(_)
KeySeqs(n) ==
    IF n = 0 THEN {<<>>}
    ELSE LET prev == KeySeqs(n - 1)
         IN  prev \cup UNION {{Append(p, k) : k \in Keys \ Range(p)} :
                              p \in {q \in prev : Len(q) = n - 1}}

\* The files a key may name.  Every argument varies one thing widely and
\* the rest over a few values: vary is "keys", "urls", "logs" or "text".
FilesFor(key, vary) ==
    CASE key = UrlToInfoKey -> IF vary = "urls" THEN UrlFilesAll ELSE UrlFilesFew
      [] key = ConversationLogKey -> IF vary = "logs" THEN LogFilesAll ELSE LogFilesFew
      [] key \in {ArticleKey, PolishedKey} ->
            IF vary = "keys" THEN {Missing, Unreadable, OkFile} ELSE {OkFile}
      [] OTHER -> {OkFile}

\* The dicts with the keys ks in this order: a sequence of key and file.
RECURSIVE FileMaps(_, _)
FileMaps(ks, vary) ==
    IF ks = <<>> THEN {<<>>}
    ELSE {<<[key |-> Head(ks), file |-> f]>> \o rest :
             f \in FilesFor(Head(ks), vary), rest \in FileMaps(Tail(ks), vary)}

FullKeys == <<ArticleKey, UrlToInfoKey, ConversationLogKey>>

Arguments ==
    ({"dict"} \X (UNION {FileMaps(ks, "keys") : ks \in KeySeqs(MaxKeys)}) \X TextsFew)
    \cup ({"dict"} \X FileMaps(FullKeys, "urls") \X TextsFew)
    \cup ({"dict"} \X FileMaps(FullKeys, "logs") \X TextsFew)
    \cup ({"dict"} \X FileMaps(FullKeys, "text") \X Texts)
    \cup ({"list", "str"} \X FileMaps(FullKeys, "text") \X TextsFew)

\* ------------------------------------------------------------------ state
VARIABLES
    arg_type,                \* the Python type of the argument
    article_file_path_dict,  \* the argument: keys in order, each with its file
    parse_output,            \* what text_processing.parse returns for the article
    pc,                      \* where the call is
    article_file,            \* the key chosen at line 117
    article_data,            \* the record under construction
    opened,                  \* the keys whose files open() was called on, in order
    returned,                \* "pending", "None" or "article_data"
    raised                   \* the exception that left the call, or "none"

vars == <<arg_type, article_file_path_dict, parse_output, pc, article_file,
          article_data, opened, returned, raised>>

\* text_processing.parse: an opaque string -> string function
parse(article_content) == parse_output

Init ==
    /\ \E a \in Arguments :
        /\ arg_type = a[1]
        /\ article_file_path_dict = a[2]
        /\ parse_output = a[3]
    /\ pc = "check_type"
    /\ article_file = None
    /\ article_data = <<>>
    /\ opened = <<>>
    /\ returned = "pending"
    /\ raised = "none"

\* return None / return article_data
Return(what) ==
    /\ pc' = "done"
    /\ returned' = what
    /\ raised' = "none"

\* An exception raised inside the try block: lines 188-195.
Throw(e) ==
    /\ pc' = "done"
    /\ returned' = IF OuterCatches(e) THEN "None" ELSE "pending"
    /\ raised' = IF OuterCatches(e) THEN "none" ELSE e

\* Faulty variant: no isinstance check.
CheckTypeLenient ==
    /\ pc = "check_type"
    /\ pc' = "select"
    /\ UNCHANGED <<arg_type, article_file_path_dict, parse_output, article_file,
                   article_data, opened, returned, raised>>

\* lines 114-115
CheckType ==
    /\ pc = "check_type"
    /\ IF arg_type # "dict"
       THEN /\ pc' = "done"
            /\ raised' = "TypeError"
            /\ UNCHANGED returned
       ELSE /\ pc' = "select"
            /\ UNCHANGED <<returned, raised>>
    /\ UNCHANGED <<arg_type, article_file_path_dict, parse_output, article_file,
                   article_data, opened>>

\* lines 117-122
SelectArticle ==
    /\ pc = "select"
    /\ article_file' = FirstMdKey(article_file_path_dict)
    /\ IF article_file' = None
       THEN Return("None")
       ELSE /\ pc' = "read_article"
            /\ UNCHANGED <<returned, raised>>
    /\ UNCHANGED <<arg_type, article_file_path_dict, parse_output, article_data, opened>>

\* Faulty variant: a record that starts with an empty citations field.
NewArticleDataWithCitations(parsed_article_content) ==
    [article |-> parsed_article_content,
     short_text |-> ShortText(parsed_article_content),
     citation |-> None,
     citations |-> <<>>]

\* lines 141-145
NewArticleData(parsed_article_content) ==
    [article |-> parsed_article_content,
     short_text |-> ShortText(parsed_article_content),
     citation |-> None]

\* lines 124-145
ReadArticle ==
    /\ pc = "read_article"
    /\ opened' = Append(opened, article_file)
    /\ LET file == Lookup(article_file_path_dict, article_file)
           parsed_article_content == parse(file)
       IN  IF Open(file) # "none"
           THEN /\ Throw(Open(file))
                /\ UNCHANGED article_data
           ELSE /\ article_data' = NewArticleData(parsed_article_content)
                /\ pc' = "citations"
                /\ UNCHANGED <<returned, raised>>
    /\ UNCHANGED <<arg_type, article_file_path_dict, parse_output, article_file>>

\* lines 147-169
LoadCitations ==
    /\ pc = "citations"
    /\ IF ~HasKey(article_file_path_dict, UrlToInfoKey)
       THEN /\ pc' = "conversation_log"
            /\ UNCHANGED <<article_data, opened, returned, raised>>
       ELSE LET file == Lookup(article_file_path_dict, UrlToInfoKey)
                url_info == read_json_file(file)
                citations == Citations(url_info.val)
            IN  /\ opened' = Append(opened, UrlToInfoKey)
                /\ IF url_info.exc # "none"
                   THEN Throw(url_info.exc) /\ UNCHANGED article_data
                   ELSE IF citations.exc # "none"
                   THEN Throw(citations.exc) /\ UNCHANGED article_data
                   ELSE /\ article_data' = ("citations" :> citations.val) @@ article_data
                        /\ pc' = "conversation_log"
                        /\ UNCHANGED <<returned, raised>>
    /\ UNCHANGED <<arg_type, article_file_path_dict, parse_output, article_file>>

\* lines 171-187
LoadConversationLog ==
    /\ pc = "conversation_log"
    /\ IF ~HasKey(article_file_path_dict, ConversationLogKey)
       THEN /\ Return("article_data")
            /\ UNCHANGED <<article_data, opened>>
       ELSE LET file == Lookup(article_file_path_dict, ConversationLogKey)
                conversation_log == read_json_file(file)
                renamed == RenameAgents(conversation_log.val)
            IN  /\ opened' = Append(opened, ConversationLogKey)
                /\ IF conversation_log.exc # "none"
                   THEN IF InnerCatches(conversation_log.exc)
                        THEN Return("article_data") /\ UNCHANGED article_data
                        ELSE Throw(conversation_log.exc) /\ UNCHANGED article_data
                   ELSE IF renamed.exc # "none"
                   THEN Throw(renamed.exc) /\ UNCHANGED article_data
                   ELSE /\ article_data' = ("conversation_log" :> renamed.val) @@ article_data
                        /\ Return("article_data")
    /\ UNCHANGED <<arg_type, article_file_path_dict, parse_output, article_file>>

Next ==
    \/ CheckType
    \/ SelectArticle
    \/ ReadArticle
    \/ LoadCitations
    \/ LoadConversationLog

Spec == Init /\ [][Next]_vars

\* ================================================================= claims
\* The vocabulary of the claims, stated on the argument and on the result
\* and not through the operators above.
Done == pc = "done"

IsDict == arg_type = "dict"

ReturnedNone == Done /\ returned = "None" /\ raised = "none"

ReturnedRecord == Done /\ returned = "article_data" /\ raised = "none"

Fields == DOMAIN article_data

IsMarkdownName(key) == key[Len(key)] = ".md"

MarkdownEntries ==
    {i \in 1..Len(article_file_path_dict) : IsMarkdownName(article_file_path_dict[i].key)}

FirstMarkdown == article_file_path_dict[Min(MarkdownEntries)]

Has(key) == \E i \in 1..Len(article_file_path_dict) : article_file_path_dict[i].key = key

FileOf(key) ==
    article_file_path_dict[CHOOSE i \in 1..Len(article_file_path_dict) :
                               article_file_path_dict[i].key = key].file

CannotBeRead(file) == file.st \in {"missing", "unreadable"}

ArticleReadable == IsDict /\ MarkdownEntries # {} /\ ~CannotBeRead(FirstMarkdown.file)

\* url_to_info.json holds a citation index of the documented shape.
IsCitationIndex(file) ==
    /\ file.st = "json"
    /\ file.json.t = "dict"
    /\ file.json.has =>
          /\ file.json.url_to_info.t = "dict"
          /\ \A i \in 1..Len(file.json.url_to_info.items) :
                 file.json.url_to_info.items[i].info.t = "dict"

CitationsFine == Has(UrlToInfoKey) => IsCitationIndex(FileOf(UrlToInfoKey))

\* The text with every line that begins with "#" deleted, line by line.
RECURSIVE DropHeadingLines(_)
DropHeadingLines(s) ==
    IF s = <<>> THEN <<>>
    ELSE LET e == Min({j \in 1..Len(s) : j = Len(s) \/ s[j] = "\n"})
         IN  (IF s[1] = "#" THEN <<>> ELSE SubSeq(s, 1, e))
                 \o DropHeadingLines(SubSeq(s, e + 1, Len(s)))

FirstCharacters(s, n) == [i \in 1..(IF Len(s) < n THEN Len(s) ELSE n) |-> s[i]]

\* C1: a dict with no key ending in ".md" makes the call return None
\* without raising and without opening any file, whatever other keys it has.
C1_NoMarkdownKey ==
    (Done /\ IsDict /\ MarkdownEntries = {}) => (ReturnedNone /\ opened = <<>>)

C1_Witness ==
    /\ Done /\ IsDict /\ MarkdownEntries = {}
    /\ Has(UrlToInfoKey) /\ Has(ConversationLogKey)
    /\ \E i \in 1..Len(article_file_path_dict) : article_file_path_dict[i].key = BackupKey

\* C2 as stated: if some key ending in ".md" names a missing or unreadable
\* file, the call returns None without raising and reads neither the
\* citation index nor the conversation log.
C2_SomeArticleUnreadable ==
    (Done /\ IsDict /\ \E i \in MarkdownEntries : CannotBeRead(article_file_path_dict[i].file))
        => /\ ReturnedNone
           /\ \A i \in MarkdownEntries :
                  (/\ CannotBeRead(article_file_path_dict[i].file)
                   /\ article_file_path_dict[i].key \in Range(opened))
                      => opened[Len(opened)] = article_file_path_dict[i].key

\* C2 amended: if the first key ending in ".md" names a missing or
\* unreadable file, the call returns None without raising and opens no
\* file but that one.
C2_FirstArticleUnreadable ==
    (Done /\ IsDict /\ MarkdownEntries # {} /\ CannotBeRead(FirstMarkdown.file))
        => (ReturnedNone /\ opened = <<FirstMarkdown.key>>)

C2_Witness ==
    /\ Done /\ IsDict /\ MarkdownEntries # {}
    /\ FirstMarkdown.file.st = "unreadable"
    /\ Has(UrlToInfoKey) /\ Has(ConversationLogKey)
    /\ ReturnedNone

\* What C3 says of the record when conversation_log.json is not JSON: the
\* record is returned, has no conversation_log, and its other fields are
\* those of the same call without the conversation_log.json key.
C3_Record ==
    /\ ReturnedRecord
    /\ "conversation_log" \notin Fields
    /\ Fields = {"article", "short_text", "citation"}
                    \cup (IF Has(UrlToInfoKey) THEN {"citations"} ELSE {})
    /\ article_data["article"] = parse_output
    /\ article_data["short_text"]
           = FirstCharacters(DropHeadingLines(parse_output), ShortTextLen)
    /\ article_data["citation"] = None
    /\ Has(UrlToInfoKey) =>
           article_data["citations"] = Citations(FileOf(UrlToInfoKey).json).val

LogNotJson == Has(ConversationLogKey) /\ FileOf(ConversationLogKey).st = "text"

\* C3 as stated: with a readable article and a conversation_log.json that
\* is not JSON, the call returns the record without conversation_log.
C3_CorruptLogAlwaysRecord ==
    (Done /\ ArticleReadable /\ LogNotJson) => C3_Record

\* C3 amended: with a readable article, a citation index that (when its
\* key is present) loads, and a conversation_log.json that is not JSON,
\* the call returns the record without conversation_log.
C3_CorruptLogOmitted ==
    (Done /\ ArticleReadable /\ CitationsFine /\ LogNotJson) => C3_Record

C3_Witness ==
    /\ Done /\ ArticleReadable /\ LogNotJson
    /\ Has(UrlToInfoKey) /\ IsCitationIndex(FileOf(UrlToInfoKey))
    /\ ReturnedRecord
    /\ "citations" \in Fields /\ Len(article_data["citations"]) > 0
    /\ Len(article_data["short_text"]) > 0

\* C4: an argument that is not a dict makes the call raise TypeError, with
\* nothing returned, no key chosen and no file opened.
C4_NotADictRaises ==
    (Done /\ ~IsDict)
        => (raised = "TypeError" /\ returned = "pending"
            /\ article_file = None /\ opened = <<>> /\ article_data = <<>>)

C4_Witness ==
    /\ Done /\ arg_type = "list" /\ raised = "TypeError"
    /\ MarkdownEntries # {}

\* C5: with a readable article and a url_to_info.json that is not JSON,
\* the call returns None without raising and never opens the conversation
\* log.
C5_CorruptIndexNullsRecord ==
    (Done /\ ArticleReadable /\ Has(UrlToInfoKey) /\ FileOf(UrlToInfoKey).st = "text")
        => (ReturnedNone /\ ConversationLogKey \notin Range(opened))

C5_Witness ==
    /\ Done /\ ArticleReadable
    /\ Has(UrlToInfoKey) /\ FileOf(UrlToInfoKey).st = "text"
    /\ Has(ConversationLogKey) /\ FileOf(ConversationLogKey).st = "json"
    /\ ReturnedNone

\* C6: a returned record has article, short_text and citation, citation is
\* None, citations is there exactly when the dict has url_to_info.json,
\* conversation_log only when the dict has conversation_log.json and the
\* file is JSON, and there is no other field.
C6_RecordShape ==
    ReturnedRecord =>
        /\ {"article", "short_text", "citation"} \subseteq Fields
        /\ article_data["citation"] = None
        /\ "citations" \in Fields <=> Has(UrlToInfoKey)
        /\ "conversation_log" \in Fields =>
               Has(ConversationLogKey) /\ FileOf(ConversationLogKey).st = "json"
        /\ Fields \subseteq {"article", "short_text", "citation", "citations",
                             "conversation_log"}

C6_Witness ==
    /\ ReturnedRecord
    /\ Fields = {"article", "short_text", "citation", "conversation_log"}

\* The url_to_info mapping of the citation index, in the order of the file.
IndexItems ==
    LET json == FileOf(UrlToInfoKey).json
    IN  IF json.has THEN json.url_to_info.items ELSE <<>>

\* The citation the documentation describes for an info record: title and
\* description default to "", snippets to the empty sequence, and a lone
\* snippet stands in for absent or empty snippets.
DocumentedCitation(url, info) ==
    [url |-> url,
     title |-> IF "title" \in DOMAIN info.f THEN info.f["title"] ELSE "",
     description |-> IF "description" \in DOMAIN info.f THEN info.f["description"] ELSE "",
     snippets |->
        IF "snippets" \in DOMAIN info.f /\ Len(info.f["snippets"]) > 0
        THEN info.f["snippets"]
        ELSE IF "snippet" \in DOMAIN info.f THEN <<info.f["snippet"]>> ELSE <<>>]

\* C7: the citations of a returned record have exactly the keys 1..n for
\* the n URLs of the url_to_info mapping, the citation at key i has the
\* i-th URL of the file and is built from its info record; without the
\* url_to_info field, or with an empty one, citations is empty.
C7_CitationsNumbered ==
    (ReturnedRecord /\ Has(UrlToInfoKey)) =>
        /\ DOMAIN article_data["citations"] = 1..Len(IndexItems)
        /\ \A i \in 1..Len(IndexItems) :
               /\ article_data["citations"][i].url = IndexItems[i].url
               /\ article_data["citations"][i]
                      = DocumentedCitation(IndexItems[i].url, IndexItems[i].info)

C7_Witness ==
    /\ ReturnedRecord /\ Has(UrlToInfoKey)
    /\ Len(IndexItems) = 2
    /\ IndexItems[1].url = "https://b.example"
    /\ IndexItems[2].url = "https://a.example"
    /\ "snippets" \in DOMAIN IndexItems[1].info.f
    /\ IndexItems[1].info.f["snippets"] = <<>>
    /\ article_data["citations"][1].snippets = <<"x">>
    /\ article_data["citations"][2].title = ""

\* C8: the short_text of a returned record has at most 100 characters, has
\* no line that begins with "#", and is the first 100 characters (or all,
\* when there are fewer) of the parsed text with every line that begins
\* with "#" deleted along with its newline.
C8_ShortText ==
    ReturnedRecord =>
        LET short_text == article_data["short_text"]
        IN  /\ Len(short_text) <= ShortTextLen
            /\ \A i \in 1..Len(short_text) :
                   short_text[i] = "#" => ~(i = 1 \/ short_text[i - 1] = "\n")
            /\ short_text = FirstCharacters(DropHeadingLines(parse_output), ShortTextLen)

C8_Witness ==
    /\ ReturnedRecord
    /\ Len(parse_output) > ShortTextLen /\ parse_output[1] = "#"
    /\ Len(DropHeadingLines(parse_output)) > ShortTextLen
    /\ Len(article_data["short_text"]) = ShortTextLen

\* The conversation log as the file holds it.
LogJson == FileOf(ConversationLogKey).json

IsSequenceOfRecords(json) ==
    json.t = "list" /\ \A i \in 1..Len(json.items) : json.items[i].t = "dict"

DocumentedName(n) ==
    CASE n = 0 -> "User"
      [] n = 1 -> "AI Assistant"
      [] n = 2 -> "Expert"
      [] n = 5 -> "Agent 5"
      [] n = -1 -> "Agent -1"

HasIntegerAgent(entry) ==
    "agent" \in DOMAIN entry.f /\ entry.f["agent"].kind = "int"

\* C9: for a log that is a sequence of records, the conversation_log of a
\* returned record has the length and order of the file, a record with an
\* integer agent n has it replaced by the name of n, and every other
\* record and every other field is as in the file.
C9_AgentsRenamed ==
    (ReturnedRecord /\ Has(ConversationLogKey)
        /\ FileOf(ConversationLogKey).st = "json" /\ IsSequenceOfRecords(LogJson))
    => LET log == article_data["conversation_log"]
       IN  /\ log.t = "list"
           /\ Len(log.items) = Len(LogJson.items)
           /\ \A i \in 1..Len(LogJson.items) :
                  LET before == LogJson.items[i]
                      after == log.items[i]
                  IN  IF HasIntegerAgent(before)
                      THEN /\ after.t = "dict"
                           /\ DOMAIN after.f = DOMAIN before.f
                           /\ after.f["agent"].kind = "str"
                           /\ after.f["agent"].text = DocumentedName(before.f["agent"].num)
                           /\ \A k \in DOMAIN before.f \ {"agent"} : after.f[k] = before.f[k]
                      ELSE after = before

\* The log file makes the loop of lines 178-182 raise: its value cannot be
\* iterated (a number, a boolean, null), or iterating it yields a number,
\* a boolean or null, or a string that contains "agent".
ContainsAgent(chars) ==
    \E i \in 1..Len(chars) :
        i + 4 <= Len(chars) /\ <<chars[i], chars[i + 1], chars[i + 2], chars[i + 3], chars[i + 4]>>
                                   = <<"a", "g", "e", "n", "t">>

BreaksTheLoop(x) == x.t \in {"int", "NoneType"} \/ (x.t = "str" /\ ContainsAgent(x.chars))

LogRaises(json) ==
    \/ json.t \in {"int", "NoneType"}
    \/ json.t = "list" /\ \E i \in 1..Len(json.items) : BreaksTheLoop(json.items[i])
    \/ json.t = "dict" /\ \E i \in 1..Len(json.keys) : BreaksTheLoop(json.keys[i])

LogFileBad ==
    /\ Has(ConversationLogKey)
    /\ \/ CannotBeRead(FileOf(ConversationLogKey))
       \/ FileOf(ConversationLogKey).st = "json" /\ ~IsSequenceOfRecords(LogJson)

=============================================================================
